---- MODULE Spec2Model ----
(***************************************************************************)
(* Model of the universal database connector                               *)
(* (src/mcp-servers/database-connector/connector.py): the DatabaseConnector *)
(* object (config, connections, query_cache), the CloudflareD1Connection    *)
(* handle, and the tool / resource handlers built on them.                  *)
(*                                                                         *)
(* Strings are TLA+ strings, Python dicts are functions over their keys,   *)
(* Python values of mixed type are tagged records (see S, B, N).           *)
(***************************************************************************)
EXTENDS Integers, Sequences, FiniteSets, TLC

VARIABLES
    config,        \* DatabaseConnector.config (dict loaded by load_config)
    connections,   \* DatabaseConnector.connections: name -> Handle
    query_cache,   \* DatabaseConnector.query_cache: key -> {result, timestamp}
    configFile,    \* the file at config_path: whether it exists, its text, writes so far
    env,           \* os.environ: variable name -> value
    now,           \* datetime.now(), in whole seconds
    localDb,       \* the embedded engine's database behind each sqlite profile
    inflight,      \* coroutines suspended at the HTTP POST of CloudflareD1Connection.execute
    calls,         \* number of requests started so far
    constructed,   \* name -> number of Handles constructed for it (call counter)
    backendCalls,  \* number of queries handed to a backend Handle (call counter)
    lastPost,      \* the last HTTP POST issued by CloudflareD1Connection.execute
    ret,           \* the last completed call and what it returned or raised
    expIn,         \* argument of the last _expand_env_vars call (SpecExpand)
    expOut,        \* its return value (SpecExpand)
    loop           \* the sqlite3 call the event-loop thread is executing, if any

vars == <<config, configFile, connections, query_cache, env, now, localDb, inflight,
          calls, constructed, backendCalls, lastPost, ret, expIn, expOut, loop>>

-----------------------------------------------------------------------------
(* Bounds of the model *)

\* requests started in one behaviour
MaxCalls == 2
\* last clock value the model lets time reach
MaxTime == 86400
\* length of the strings _expand_env_vars is applied to in SpecExpand
MaxLen == 4

\* timedelta.seconds is the remainder of the difference modulo one day
SecondsPerDay == 86400

-----------------------------------------------------------------------------
(* Python values *)

S(s) == [t |-> "str", s |-> s]
B(b) == [t |-> "bool", b |-> b]
N(n) == [t |-> "int", n |-> n]
None == [t |-> "none"]

\* dict with one more key / a dict literal of one key
Put(d, k, v) == [x \in DOMAIN d \cup {k} |-> IF x = k THEN v ELSE d[x]]
EmptyDict == [x \in {} |-> None]

\* dict.get(key, default)
Get(d, k, default) == IF k \in DOMAIN d THEN d[k] ELSE default

-----------------------------------------------------------------------------
(* Inputs *)

\* a SELECT whose text holds a colon (in a trailing SQL comment), an INSERT and
\* a statement the engine rejects
QSel  == "SELECT * FROM t --:x"
QIns  == "INSERT INTO t VALUES (1)"
QBad  == "SELEC"

\* database names a caller may pass; only "default" and "remote" are configured.
\* DbColon followed by ":x" reads as DbDefault followed by ":" and QSel.
DbDefault == "default"
DbRemote  == "remote"
DbColon   == "default:SELECT * FROM t --"
DbNope    == "nope"
DbNames   == {DbDefault, DbRemote, DbColon, DbNope}

\* params is None or a tuple of strings
ParamsX == [t |-> "tuple", items |-> <<"x">>]

\* the (database, query, params, fetch) execute_query is called with
Requests ==
    { <<DbDefault, QSel, None, TRUE>>, <<DbDefault, QSel, None, FALSE>>,
      <<DbDefault, QIns, None, TRUE>>, <<DbDefault, QIns, None, FALSE>>,
      <<DbDefault, QBad, None, TRUE>>,
      <<DbRemote, QSel, ParamsX, TRUE>>, <<DbRemote, QSel, ParamsX, FALSE>>,
      <<DbColon, "x", None, TRUE>> }

-----------------------------------------------------------------------------
(* load_config: the configurations the connector may have loaded *)

DefaultSettings ==
    [query_timeout |-> N(30), max_connections |-> N(10), cache_enabled |-> B(TRUE),
     cache_ttl |-> N(300), log_queries |-> B(TRUE)]

\* settings sections of the configuration files the model loads
SettingsChoices ==
    { [DefaultSettings EXCEPT !.cache_ttl = N(1)],
      [DefaultSettings EXCEPT !.cache_ttl = N(SecondsPerDay)],
      [DefaultSettings EXCEPT !.cache_ttl = N(1), !.cache_enabled = B(FALSE)] }

Databases ==
    [default |-> [type |-> S("sqlite"), path |-> S("~/.database-connector/default.db"),
                  read_only |-> B(FALSE)],
     remote  |-> [type |-> S("cloudflare_d1"), database_id |-> S("db1"),
                  read_only |-> B(FALSE)]]

Registry == [account_id |-> S("acct"), api_token |-> S("${TOK}"), databases |-> EmptyDict]

\* a configuration file with all three sections, and one without "settings"
Configs ==
    { [databases |-> Databases, cloudflare_d1 |-> Registry, settings |-> st] :
        st \in SettingsChoices }
    \cup { [databases |-> Databases, cloudflare_d1 |-> Registry] }

\* json.dump / json.dumps of a value: its text; json.load of a text
Dumps(value) == [json |-> value]
Loads(text) == text.json

\* the file at config_path: absent, or holding the text of a configuration
Absent == [exists |-> FALSE, writes |-> 0]
File(cfg) == [exists |-> TRUE, text |-> Dumps(cfg), writes |-> 0]

\* the configuration load_config creates when there is no file
default_config ==
    [databases |->
        [default |-> [type |-> S("sqlite"), path |-> S("~/.database-connector/default.db"),
                      read_only |-> B(FALSE)]],
     cloudflare_d1 |-> [account_id |-> S("${CLOUDFLARE_ACCOUNT_ID}"),
                        api_token |-> S("${CLOUDFLARE_API_TOKEN}"),
                        databases |-> EmptyDict],
     settings |-> DefaultSettings]

\* a load_config that saves the configuration it has loaded
load_configMutSaves(file) ==
    LET cfg == IF file.exists THEN Loads(file.text) ELSE default_config
    IN [config |-> cfg,
        file |-> [exists |-> TRUE, text |-> Dumps(cfg), writes |-> file.writes + 1]]

\* load_config: the configuration it adopts and the file it leaves
load_config(file) ==
    IF file.exists
    THEN [config |-> Loads(file.text), file |-> file]
    ELSE [config |-> default_config,
          file |-> [exists |-> TRUE, text |-> Dumps(default_config),
                    writes |-> file.writes + 1]]

\* a configuration file with the two profiles and the default settings
FullConfig == [databases |-> Databases, cloudflare_d1 |-> Registry, settings |-> DefaultSettings]

-----------------------------------------------------------------------------
(* Outcomes of a Python call: a returned value or a raised exception *)

Return(v) == [raised |-> FALSE, value |-> v]
Raise(cls, msg) == [raised |-> TRUE, exc |-> cls, msg |-> msg]

\* str(params) as the f-string of _get_cache_key renders it
RECURSIVE ReprItems(_)
ReprItems(items) ==
    IF Len(items) = 1 THEN "'" \o items[1] \o "'"
    ELSE "'" \o items[1] \o "', " \o ReprItems(Tail(items))

StrParams(params) ==
    IF params = None THEN "None"
    ELSE IF Len(params.items) = 0 THEN "()"
    ELSE IF Len(params.items) = 1 THEN "(" \o ReprItems(params.items) \o ",)"
    ELSE "(" \o ReprItems(params.items) \o ")"

\* key_data of _get_cache_key; the md5 digest of it is taken as injective
_get_cache_key(database, query, params) ==
    database \o ":" \o query \o ":" \o StrParams(params)

\* os.getenv(name): None for an unset variable
getenvMutNoDefault(name, default) == IF name \in DOMAIN env THEN S(env[name]) ELSE None

\* os.getenv(name, default)
getenv(name, default) == IF name \in DOMAIN env THEN S(env[name]) ELSE default

StartsWith(s, p) == Len(s) >= Len(p) /\ SubSeq(s, 1, Len(p)) = p
EndsWith(s, p) == Len(s) >= Len(p) /\ SubSeq(s, Len(s) - Len(p) + 1, Len(s)) = p

_expand_env_vars(value) ==
    IF value.t = "str" /\ StartsWith(value.s, "${") /\ EndsWith(value.s, "}")
    THEN getenv(SubSeq(value.s, 3, Len(value.s) - 1), value)
    ELSE value

-----------------------------------------------------------------------------
(* DatabaseConnector.get_connection *)

\* a sqlite3.Connection and a CloudflareD1Connection, each with the identity of
\* the object that was constructed
SqliteHandle(id, path) == [id |-> id, kind |-> "sqlite", path |-> path]
D1Handle(id, d1_config) ==
    [id |-> id, kind |-> "d1", account_id |-> d1_config.account_id,
     api_token |-> d1_config.api_token, database_id |-> d1_config.database_id,
     base_url |-> "https://api.cloudflare.com/client/v4/accounts/"
                    \o d1_config.account_id.s \o "/d1/database/" \o d1_config.database_id.s]

\* number of Handles constructed so far, over all names
Built == LET RECURSIVE Sum(_)
             Sum(ns) == IF ns = {} THEN 0
                        ELSE LET n == CHOOSE x \in ns : TRUE
                             IN constructed[n] + Sum(ns \ {n})
         IN Sum(DOMAIN constructed)

\* a get_connection that never finds a stored Handle
MemoizedMutNever(database_name) == FALSE

\* the memo test of get_connection
Memoized(database_name) == database_name \in DOMAIN connections

\* a get_connection that registers the name before it builds its Handle
get_connectionMutRegisters(database_name) ==
    LET same(o) == [out |-> o, conns |-> connections, built |-> constructed]
        early(o) == [out |-> o, conns |-> Put(connections, database_name, None),
                     built |-> constructed]
        store(h) == [out |-> Return(h),
                     conns |-> Put(connections, database_name, h),
                     built |-> [constructed EXCEPT ![database_name] = @ + 1]]
    IN
    IF database_name \notin DOMAIN config.databases
    THEN same(Raise("ValueError", "Database '" \o database_name \o "' not configured"))
    ELSE
    LET db_config == config.databases[database_name]
        db_type == db_config.type
    IN
    IF database_name \in DOMAIN connections THEN same(Return(connections[database_name]))
    ELSE IF db_type = S("sqlite") THEN
        IF "path" \notin DOMAIN db_config THEN early(Raise("KeyError", "'path'"))
        ELSE store(SqliteHandle(Built + 1, _expand_env_vars(db_config.path)))
    ELSE IF db_type = S("cloudflare_d1") THEN
        IF "database_id" \notin DOMAIN db_config
        THEN early(Raise("KeyError", "'database_id'"))
        ELSE store(D1Handle(Built + 1,
                 [account_id |-> _expand_env_vars(config.cloudflare_d1.account_id),
                  api_token |-> _expand_env_vars(config.cloudflare_d1.api_token),
                  database_id |-> _expand_env_vars(db_config.database_id)]))
    ELSE early(Raise("ValueError", "Unsupported database type: " \o db_type.s))

\* outcome of get_connection with the connections map and the construction
\* counter it leaves
get_connection(database_name) ==
    LET same(o) == [out |-> o, conns |-> connections, built |-> constructed]
        store(h) == [out |-> Return(h),
                     conns |-> Put(connections, database_name, h),
                     built |-> [constructed EXCEPT ![database_name] = @ + 1]]
    IN
    IF database_name \notin DOMAIN config.databases
    THEN same(Raise("ValueError", "Database '" \o database_name \o "' not configured"))
    ELSE
    LET db_config == config.databases[database_name]
        db_type == db_config.type
        expanded_config ==
            [k \in DOMAIN db_config |->
                IF db_config[k].t = "str" THEN _expand_env_vars(db_config[k])
                ELSE db_config[k]]
    IN
    IF Memoized(database_name) THEN same(Return(connections[database_name]))
    ELSE IF db_type = S("sqlite") THEN
        IF "path" \notin DOMAIN expanded_config THEN same(Raise("KeyError", "'path'"))
        ELSE store(SqliteHandle(Built + 1, expanded_config.path))
    ELSE IF db_type = S("cloudflare_d1") THEN
        IF "database_id" \notin DOMAIN expanded_config
        THEN same(Raise("KeyError", "'database_id'"))
        ELSE store(D1Handle(Built + 1,
                 [account_id |-> _expand_env_vars(config.cloudflare_d1.account_id),
                  api_token |-> _expand_env_vars(config.cloudflare_d1.api_token),
                  database_id |-> expanded_config.database_id]))
    ELSE same(Raise("ValueError", "Unsupported database type: " \o db_type.s))

-----------------------------------------------------------------------------
(* The embedded engine behind a sqlite3.Connection: the tables db.tables (in *)
(* name order), table t with db.rows rows, db.in_txn when the connection    *)
(* holds an uncommitted transaction.                                        *)

Row == [x |-> 1]

\* the statements of get_schema_info and get_table_info
SchemaQuery == "SELECT name, type, sql FROM sqlite_master WHERE type IN ('table', 'index', 'view') ORDER BY type, name"
PragmaQuery(table_name) == "PRAGMA table_info(" \o table_name \o ")"

\* the table names of the model, in the order ORDER BY name gives them
TableOrder == << "t", "t2" >>

\* the rows of sqlite_master (name and type) for a database with these tables,
\* an index and a view on t, ordered by type, name
Catalog(tables) ==
    << [name |-> "t_idx", type |-> "index"] >>
      \o [i \in 1..Len(tables) |-> [name |-> tables[i], type |-> "table"]]
      \o << [name |-> "t_view", type |-> "view"] >>

\* PRAGMA table_info: the columns of t, no row for another name
TableColumns(table_name) == IF table_name = "t" THEN << [name |-> "x", type |-> "INTEGER"] >> ELSE <<>>

\* the table name and the column list of a CREATE TABLE statement
CreatedTable(query) ==
    LET stop == CHOOSE k \in 14..Len(query) :
                    /\ SubSeq(query, k, k) = " "
                    /\ \A j \in 14..(k - 1) : SubSeq(query, j, j) # " "
    IN [name |-> SubSeq(query, 14, stop - 1),
        columns |-> SubSeq(query, stop + 2, Len(query) - 1)]

\* conn.execute(query, params or []): the cursor, or the sqlite3 error raised
sqlite_execute(db, query, params) ==
    IF params # None /\ Len(params.items) > 0
    THEN [raised |-> TRUE, msg |-> "Incorrect number of bindings supplied. The current statement uses 0, and there are "
                    \o ToString(Len(params.items)) \o " supplied.",
          db |-> db]
    ELSE IF query = QSel
    THEN [raised |-> FALSE, rows |-> [i \in 1..db.rows |-> Row], description |-> <<"x">>,
          rowcount |-> 0 - 1, lastrowid |-> 0, db |-> db]
    ELSE IF query = QIns
    THEN [raised |-> FALSE, rows |-> <<>>, description |-> <<>>,
          rowcount |-> 1, lastrowid |-> db.rows + 1,
          db |-> [db EXCEPT !.rows = db.rows + 1, !.in_txn = TRUE]]
    ELSE IF StartsWith(query, "CREATE TABLE ")
    THEN LET created == CreatedTable(query)
             names == { db.tables[i] : i \in 1..Len(db.tables) } \cup {created.name}
         IN
         IF created.columns = "" \/ EndsWith(created.columns, "DEFAULT ")
         THEN [raised |-> TRUE, msg |-> "near \")\": syntax error", db |-> db]
         ELSE IF \E i \in 1..Len(db.tables) : db.tables[i] = created.name
         THEN [raised |-> TRUE, msg |-> "table " \o created.name \o " already exists",
               db |-> db]
         ELSE [raised |-> FALSE, rows |-> <<>>, description |-> <<>>,
               rowcount |-> 0 - 1, lastrowid |-> 0,
               db |-> [db EXCEPT !.tables = SelectSeq(TableOrder, LAMBDA n : n \in names)]]
    ELSE [raised |-> TRUE, msg |-> "near \"" \o query \o "\": syntax error", db |-> db]

\* conn.commit()
sqlite_commit(db) == [db EXCEPT !.in_txn = FALSE]

-----------------------------------------------------------------------------
(* CloudflareD1Connection.execute *)

\* the POST that execute issues: endpoint, Authorization header and JSON body
d1_request(conn, query, params) ==
    [url |-> conn.base_url \o "/query",
     authorization |-> "Bearer " \o conn.api_token.s,
     payload |-> IF params # None /\ Len(params.items) > 0
                 THEN [sql |-> query, params |-> params.items]
                 ELSE [sql |-> query]]

\* the rows the remote database holds for a statement: its catalog for the
\* schema query, the columns of t for its table-info query, one row otherwise
RemoteRows(sql) ==
    IF sql = SchemaQuery THEN Catalog(<<"t">>)
    ELSE IF sql = PragmaQuery("t") THEN TableColumns("t")
    ELSE << Row >>

\* the first element of the "result" list of a successful answer
QueryResult(sql) == [results |-> RemoteRows(sql), meta |-> [changes |-> 0], duration |-> 1]

\* what the remote service may answer to a POST of a statement: a status with
\* a JSON body or a text, or no answer (the transport fails)
HttpResponses(sql) ==
    { [status |-> 200, body |-> [success |-> TRUE, result |-> << QueryResult(sql) >>]],
      [status |-> 200, body |-> [success |-> FALSE, errors |-> <<"no such table: t">>]],
      [status |-> 500, text |-> "Internal Server Error"],
      [status |-> 0, exception |-> "Cannot connect to host"] }

\* the same with the other shapes a status 200 may carry: no statement result,
\* no "result" key, an empty or a missing "errors" list, a body that is not JSON
HttpResponsesAll(sql) ==
    HttpResponses(sql) \cup
    { [status |-> 200, body |-> [success |-> TRUE, result |-> << >>]],
      [status |-> 200, body |-> [success |-> TRUE]],
      [status |-> 200, body |-> [success |-> FALSE, errors |-> << >>]],
      [status |-> 200, body |-> [success |-> FALSE]],
      [status |-> 200, json_error |-> "Attempt to decode JSON with unexpected mimetype"],
      [status |-> 404, text |-> "Not Found"] }

\* the dict the except branch of execute returns
ConnectionError(msg) == [success |-> FALSE, error |-> "Connection error: " \o msg]

\* the dict execute returns for a response
d1_result(resp) ==
    IF "exception" \in DOMAIN resp THEN ConnectionError(resp.exception)
    ELSE IF resp.status = 200
    THEN IF "json_error" \in DOMAIN resp THEN ConnectionError(resp.json_error)
         ELSE
         LET result == resp.body IN
         IF Get(result, "success", FALSE)
         THEN IF "result" \notin DOMAIN result THEN ConnectionError("'result'")
              ELSE
              LET query_result == IF Len(result.result) > 0 THEN result.result[1]
                                  ELSE EmptyDict
              IN [success |-> TRUE, data |-> Get(query_result, "results", << >>),
                  count |-> Len(Get(query_result, "results", << >>)),
                  meta |-> Get(query_result, "meta", EmptyDict),
                  duration |-> Get(query_result, "duration", 0)]
         ELSE IF "errors" \notin DOMAIN result
              THEN [success |-> FALSE, error |-> "Unknown error"]
              ELSE IF Len(result.errors) = 0
              THEN ConnectionError("list index out of range")
              ELSE [success |-> FALSE, error |-> result.errors[1]]
    ELSE [success |-> FALSE, error |-> "HTTP " \o ToString(resp.status) \o ": " \o resp.text]

-----------------------------------------------------------------------------
(* DatabaseConnector.execute_query *)

\* settings.cache_enabled and settings.cache_ttl of the loaded configuration
CacheEnabled == config.settings.cache_enabled.b
CacheTtl == config.settings.cache_ttl.n

\* (datetime.now() - timestamp).seconds: the seconds field of the timedelta
TimedeltaSeconds(later, earlier) == (later - earlier) % SecondsPerDay

\* a freshness test no entry passes
CacheFreshMutNever(cache_entry) == FALSE

\* the freshness test of a cache entry
CacheFresh(cache_entry) == TimedeltaSeconds(now, cache_entry.timestamp) < CacheTtl

\* a store that does not look at cache_enabled
CacheStoresMutFetchOnly(fetch, result) == fetch

\* a store that does not look at fetch
CacheStoresMutAlways(fetch, result) == CacheEnabled

\* the condition under which the result of a call is stored in the cache
CacheStores(fetch, result) == CacheEnabled /\ fetch

\* a store that empties the cache when the call is a mutation
CacheStoreMutInvalidates(cache_key, fetch, result) ==
    IF fetch
    THEN IF CacheEnabled
         THEN Put(query_cache, cache_key, [result |-> result, timestamp |-> now])
         ELSE query_cache
    ELSE EmptyDict

\* the cache after the store at the end of the try block
CacheStore(cache_key, fetch, result) ==
    IF CacheStores(fetch, result)
    THEN Put(query_cache, cache_key, [result |-> result, timestamp |-> now])
    ELSE query_cache

\* the dict the except branch returns
QueryFailure(msg, query) == [success |-> FALSE, error |-> msg, query |-> query]

\* execute_query up to its first suspension: "done" with what it returned or
\* raised, or suspended at the POST ("await") with the Handle it holds.  conns,
\* built, db and cache are the maps it leaves; backend counts the queries it
\* handed to a Handle; served names the branch that produced the result.
execute_query(database, query, params, fetch) ==
    LET cache_key == _get_cache_key(database, query, params)
        base == [done |-> TRUE, served |-> "error", conns |-> connections,
                 built |-> constructed, db |-> localDb, cache |-> query_cache,
                 backend |-> 0]
    IN
    IF "settings" \notin DOMAIN config
    THEN [base EXCEPT !.served = "raise"] @@ [out |-> Raise("KeyError", "'settings'")]
    ELSE IF CacheEnabled /\ cache_key \in DOMAIN query_cache
            /\ CacheFresh(query_cache[cache_key])
    THEN [base EXCEPT !.served = "cache"] @@ [out |-> Return(query_cache[cache_key].result)]
    ELSE
    LET gc == get_connection(database) IN
    IF gc.out.raised
    THEN base @@ [out |-> Return(QueryFailure(gc.out.msg, query))]
    ELSE
    LET conn == gc.out.value
        got == [base EXCEPT !.conns = gc.conns, !.built = gc.built, !.backend = 1]
    IN
    IF conn.kind = "d1"
    THEN [got EXCEPT !.done = FALSE, !.served = "backend"]
            @@ [conn |-> conn, post |-> d1_request(conn, query, params)]
    ELSE
    LET cursor == sqlite_execute(localDb[database], query, params) IN
    IF cursor.raised
    THEN [got EXCEPT !.db = [localDb EXCEPT ![database] = cursor.db]]
            @@ [out |-> Return(QueryFailure(cursor.msg, query))]
    ELSE
    LET result == IF fetch
                  THEN [success |-> TRUE, data |-> cursor.rows, count |-> Len(cursor.rows),
                        columns |-> cursor.description]
                  ELSE [success |-> TRUE, affected_rows |-> cursor.rowcount,
                        last_insert_id |-> cursor.lastrowid]
        db2 == IF fetch THEN cursor.db ELSE sqlite_commit(cursor.db)
    IN [got EXCEPT !.served = "backend",
                   !.db = [localDb EXCEPT ![database] = db2],
                   !.cache = CacheStore(cache_key, fetch, result)]
            @@ [out |-> Return(result)]

\* execute_query from the answer of the POST to its return
execute_query_resume(database, query, params, fetch, resp) ==
    LET result == d1_result(resp)
    IN [out |-> Return(result),
        cache |-> CacheStore(_get_cache_key(database, query, params), fetch, result)]

-----------------------------------------------------------------------------
(* DatabaseConnector.get_schema_info and get_table_info *)

\* both run up to their first suspension, as execute_query above
get_schema_info(database) ==
    LET gc == get_connection(database)
        base == [done |-> TRUE, served |-> "error", conns |-> gc.conns, built |-> gc.built,
                 db |-> localDb, cache |-> query_cache, backend |-> 0]
    IN
    IF gc.out.raised
    THEN base @@ [out |-> Return([success |-> FALSE, error |-> gc.out.msg])]
    ELSE IF gc.out.value.kind = "d1"
    THEN [base EXCEPT !.done = FALSE, !.served = "backend", !.backend = 1]
            @@ [conn |-> gc.out.value, post |-> d1_request(gc.out.value, SchemaQuery, None)]
    ELSE [base EXCEPT !.served = "backend", !.backend = 1]
            @@ [out |-> LET rows == Catalog(localDb[database].tables)
                           IN Return([success |-> TRUE, data |-> rows, count |-> Len(rows)])]

get_table_info(database, table_name) ==
    LET gc == get_connection(database)
        base == [done |-> TRUE, served |-> "error", conns |-> gc.conns, built |-> gc.built,
                 db |-> localDb, cache |-> query_cache, backend |-> 0]
    IN
    IF gc.out.raised
    THEN base @@ [out |-> Return([success |-> FALSE, error |-> gc.out.msg, table |-> table_name])]
    ELSE IF gc.out.value.kind = "d1"
    THEN [base EXCEPT !.done = FALSE, !.served = "backend", !.backend = 1]
            @@ [conn |-> gc.out.value,
                post |-> d1_request(gc.out.value, PragmaQuery(table_name), None)]
    ELSE [base EXCEPT !.served = "backend", !.backend = 1]
            @@ [out |-> Return([success |-> TRUE, table |-> table_name,
                                columns |-> TableColumns(table_name)])]

\* either of them from the answer of the POST to its return
info_resume(resp) == [out |-> Return(d1_result(resp)), cache |-> query_cache]

-----------------------------------------------------------------------------
(* handle_call_tool and handle_read_resource *)

TextContent(text) == [type |-> "text", text |-> text]

\* the truth value of a Python value
Truthy(v) ==
    CASE v.t = "bool" -> v.b
      [] v.t = "str" -> v.s # ""
      [] v.t = "int" -> v.n # 0
      [] v.t = "none" -> FALSE
      [] OTHER -> Len(v.items) > 0

\* one column of the CREATE TABLE statement
ColumnDef(col) ==
    col.name.s \o " " \o col.type.s
      \o (IF ~Truthy(Get(col, "nullable", B(TRUE))) THEN " NOT NULL" ELSE "")
      \o (IF Truthy(Get(col, "primary_key", None)) THEN " PRIMARY KEY" ELSE "")
      \o (IF Truthy(Get(col, "default", None)) THEN " DEFAULT " \o col.default.s ELSE "")

RECURSIVE JoinDefs(_)
JoinDefs(columns) ==
    IF Len(columns) = 0 THEN ""
    ELSE IF Len(columns) = 1 THEN ColumnDef(columns[1])
    ELSE ColumnDef(columns[1]) \o ", " \o JoinDefs(Tail(columns))

CreateSql(table_name, columns) ==
    "CREATE TABLE " \o table_name \o " (" \o JoinDefs(columns) \o ")"

\* a comprehension without its filter
TablesOfMutAll(data) == [i \in 1..Len(data) |-> data[i].name]

\* [item["name"] for item in data if item["type"] == "table"]
TablesOf(data) ==
    LET tables == SelectSeq(data, LAMBDA item : item.type = "table")
    IN [i \in 1..Len(tables) |-> tables[i].name]

\* the comprehension raises KeyError on a row without "type", or a table row
\* without "name"
RowsLackKey(data) ==
    \E i \in 1..Len(data) :
        \/ "type" \notin DOMAIN data[i]
        \/ data[i].type = "table" /\ "name" \notin DOMAIN data[i]

\* the result handle_call_tool and the tables resource build from schema_info
TableList(schema_info, with_success) ==
    IF RowsLackKey(schema_info.data) THEN Raise("KeyError", "'type'")
    ELSE IF with_success
    THEN Return([success |-> TRUE, tables |-> TablesOf(schema_info.data)])
    ELSE Return([tables |-> TablesOf(schema_info.data)])

\* the payload of the except branch of handle_call_tool
ToolError(msg) == << TextContent(Dumps([success |-> FALSE, error |-> msg])) >>

\* a handler without its except branch
ToolCatchMutNone(outcome) == outcome

\* the except branch of handle_call_tool around an outcome of its try block
ToolCatch(outcome) == IF outcome.raised THEN Return(ToolError(outcome.msg)) ELSE outcome

\* what a handler makes of the outcome of the connector call it awaited;
\* via names the handler and its branch
Wrap(via, inner) ==
    CASE via = "api" -> inner
      [] via \in {"tool:execute_query", "tool:get_table_info", "tool:create_table"} ->
            ToolCatch(IF inner.raised THEN inner
                      ELSE Return(<< TextContent(Dumps(inner.value)) >>))
      [] via = "tool:list_tables" ->
            ToolCatch(IF inner.raised THEN inner
                      ELSE IF inner.value.success
                      THEN LET tl == TableList(inner.value, TRUE)
                           IN IF tl.raised THEN tl
                              ELSE Return(<< TextContent(Dumps(tl.value)) >>)
                      ELSE Return(<< TextContent(Dumps(inner.value)) >>))
      [] via = "resource:schema" ->
            IF inner.raised THEN inner ELSE Return(Dumps(inner.value))
      [] via = "resource:tables" ->
            IF inner.raised THEN inner
            ELSE IF inner.value.success
            THEN LET tl == TableList(inner.value, FALSE)
                 IN IF tl.raised THEN tl ELSE Return(Dumps(tl.value))
            ELSE Return(Dumps(inner.value))

\* the connector call a tool invocation makes, or the KeyError / ValueError its
\* try block raises before making one
ToolPlan(name, arguments) ==
    LET database == Get(arguments, "database", S(DbDefault)).s
        fail(cls, msg) == [call |-> FALSE, out |-> Raise(cls, msg)]
    IN
    IF name = "execute_query" THEN
        IF "query" \notin DOMAIN arguments THEN fail("KeyError", "'query'")
        ELSE [call |-> TRUE, op |-> "execute_query",
              args |-> << database, arguments.query.s,
                          IF Truthy(Get(arguments, "params", None))
                          THEN [t |-> "tuple", items |-> arguments.params.items]
                          ELSE None,
                          Truthy(Get(arguments, "fetch", B(TRUE))) >>]
    ELSE IF name = "get_table_info" THEN
        IF "table" \notin DOMAIN arguments THEN fail("KeyError", "'table'")
        ELSE [call |-> TRUE, op |-> "get_table_info", args |-> << database, arguments.table.s >>]
    ELSE IF name = "list_tables" THEN
        [call |-> TRUE, op |-> "get_schema_info", args |-> << database >>]
    ELSE IF name = "create_table" THEN
        IF "table" \notin DOMAIN arguments THEN fail("KeyError", "'table'")
        ELSE IF "columns" \notin DOMAIN arguments THEN fail("KeyError", "'columns'")
        ELSE [call |-> TRUE, op |-> "execute_query",
              args |-> << database, CreateSql(arguments.table.s, arguments.columns.cols),
                          None, FALSE >>]
    ELSE fail("ValueError", "Unknown tool: " \o name)

\* a sanitizer that strips the password key only
SanitizeMutPasswordOnly(cfg) ==
    [databases |->
        [name \in DOMAIN cfg.databases |->
            [k \in DOMAIN cfg.databases[name] \ {"password"} |-> cfg.databases[name][k]]],
     settings |-> cfg.settings]

\* the sanitized_config dict of the db://config resource, of a configuration
Sanitize(cfg) ==
    [databases |->
        [name \in DOMAIN cfg.databases |->
            [k \in DOMAIN cfg.databases[name] \ {"api_token", "password"} |->
                cfg.databases[name][k]]],
     settings |-> cfg.settings]

\* handle_read_resource: the text it returns without a connector call, the
\* connector call it makes, or the ValueError / KeyError it raises
ResourcePlan(uri) ==
    LET fail(cls, msg) == [call |-> FALSE, out |-> Raise(cls, msg)]
        parts == uri.path_parts
    IN
    IF uri.scheme # "db" THEN fail("ValueError", "Unsupported URI scheme: " \o uri.scheme)
    ELSE IF Len(parts) = 1 /\ parts[1] = "config" THEN
        IF "settings" \notin DOMAIN config THEN fail("KeyError", "'settings'")
        ELSE [call |-> FALSE, out |-> Return(Dumps(Sanitize(config)))]
    ELSE IF Len(parts) = 1 /\ parts[1] = "connections" THEN
        [call |-> FALSE,
         out |-> Return(Dumps([active_connections |-> DOMAIN connections,
                               cache_entries |-> Cardinality(DOMAIN query_cache)]))]
    ELSE IF Len(parts) = 2 /\ parts[2] \in {"schema", "tables"} THEN
        [call |-> TRUE, op |-> "get_schema_info", args |-> << parts[1] >>]
    ELSE fail("ValueError", "Unknown resource path")

-----------------------------------------------------------------------------
(* The state machine *)

NoInput == [t |-> "nothing"]
NoCall == [op |-> "none", via |-> "none", served |-> "none"]

\* the connector as __init__ leaves it, given the file it found at config_path
\* and the environment of the process
\* the event-loop thread is between coroutine steps
Idle == [op |-> "none"]

Constructed(files, envs) ==
    /\ \E file \in files :
          /\ config = load_config(file).config
          /\ configFile = load_config(file).file
    /\ env \in envs
    /\ connections = EmptyDict
    /\ query_cache = EmptyDict
    /\ now = 0
    /\ localDb = [n \in {DbDefault} |-> [rows |-> 0, in_txn |-> FALSE, tables |-> << "t" >>]]
    /\ inflight = {}
    /\ calls = 0
    /\ constructed = [n \in DbNames |-> 0]
    /\ backendCalls = 0
    /\ lastPost = None
    /\ ret = NoCall
    /\ expIn = NoInput
    /\ expOut = NoInput
    /\ loop = Idle

Init == Constructed({ File(cfg) : cfg \in Configs }, {EmptyDict})

\* the connector call op(args), up to its first suspension
Start(op, args) ==
    CASE op = "execute_query" -> execute_query(args[1], args[2], args[3], args[4])
      [] op = "get_schema_info" -> get_schema_info(args[1])
      [] op = "get_table_info" -> get_table_info(args[1], args[2])

\* the statement a suspended call has posted
TaskQuery(task) ==
    CASE task.op = "execute_query" -> task.args[2]
      [] task.op = "get_schema_info" -> SchemaQuery
      [] task.op = "get_table_info" -> PragmaQuery(task.args[2])

\* the same call from the answer of its POST on
Resume(op, args, resp) ==
    IF op = "execute_query"
    THEN execute_query_resume(args[1], args[2], args[3], args[4], resp)
    ELSE info_resume(resp)

\* a handler (via) calls op(args): the call returns within the step, or is
\* left suspended at its POST
Run(op, args, via) ==
    LET r == Start(op, args) IN
    /\ calls < MaxCalls
    /\ loop.op = "none"
    /\ calls' = calls + 1
    /\ connections' = r.conns
    /\ constructed' = r.built
    /\ localDb' = r.db
    /\ query_cache' = r.cache
    /\ backendCalls' = backendCalls + r.backend
    /\ IF r.done
       THEN /\ ret' = [op |-> op, args |-> args, via |-> via, served |-> r.served,
                       at |-> now, out |-> Wrap(via, r.out)]
            /\ UNCHANGED <<inflight, lastPost>>
       ELSE /\ inflight' = inflight \cup {[id |-> calls + 1, op |-> op, args |-> args,
                                            via |-> via, conn |-> r.conn.id]}
            /\ lastPost' = r.post
            /\ UNCHANGED ret
    /\ UNCHANGED <<config, configFile, env, now, expIn, expOut, loop>>

\* a handler returns or raises without calling the connector
Answer(via, out) ==
    /\ calls < MaxCalls
    /\ loop.op = "none"
    /\ calls' = calls + 1
    /\ ret' = [op |-> "none", via |-> via, served |-> "none", at |-> now, out |-> out]
    /\ UNCHANGED <<config, configFile, connections, query_cache, env, now, localDb,
                   inflight, constructed, backendCalls, lastPost, expIn, expOut, loop>>

ExecuteQuery(database, query, params, fetch) ==
    Run("execute_query", <<database, query, params, fetch>>, "api")

GetSchemaInfo(database) == Run("get_schema_info", <<database>>, "api")

GetTableInfo(database, table_name) == Run("get_table_info", <<database, table_name>>, "api")

HandleCallTool(name, arguments) ==
    LET plan == ToolPlan(name, arguments) IN
    IF plan.call THEN Run(plan.op, plan.args, "tool:" \o name)
    ELSE Answer("tool:" \o name, ToolCatch(plan.out))

HandleReadResource(uri) ==
    LET plan == ResourcePlan(uri) IN
    IF plan.call THEN Run(plan.op, plan.args, "resource:" \o uri.path_parts[2])
    ELSE Answer("resource:" \o uri.path_parts[1], plan.out)

\* an execute that posts its statement again when the answer is a failure
RetriesMutOnFailure(resp) == IF d1_result(resp).success THEN 0 ELSE 1

\* the POSTs execute issues after the answer to its first one: session.post is
\* called once, outside any loop, and every failure path returns a dict
Retries(resp) == 0

\* the remote service answers the POST of a suspended call, which then runs to
\* its return
HttpResponse(task, resp) ==
    LET r == Resume(task.op, task.args, resp) IN
    /\ loop.op = "none"
    /\ inflight' = inflight \ {task}
    /\ query_cache' = r.cache
    /\ ret' = [op |-> task.op, args |-> task.args, via |-> task.via, served |-> "backend",
               at |-> now, out |-> Wrap(task.via, r.out), resp |-> resp]
    /\ backendCalls' = backendCalls + Retries(resp)
    /\ UNCHANGED <<config, configFile, connections, env, now, localDb, calls,
                   constructed, lastPost, expIn, expOut, loop>>

\* execute_query on a sqlite profile reaches conn.execute: the call is made on
\* the event-loop thread, which it holds until it returns
LocalBegin(database, query, params, fetch) ==
    LET r == execute_query(database, query, params, fetch) IN
    /\ calls < MaxCalls
    /\ loop.op = "none"
    /\ r.done /\ r.backend = 1
    /\ calls' = calls + 1
    /\ loop' = [op |-> "execute_query", args |-> <<database, query, params, fetch>>]
    /\ UNCHANGED <<config, configFile, connections, query_cache, env, now, localDb,
                   inflight, constructed, backendCalls, lastPost, ret, expIn, expOut>>

\* the sqlite3 call returns and execute_query runs on to its return
LocalEnd ==
    /\ loop.op # "none"
    /\ LET r == execute_query(loop.args[1], loop.args[2], loop.args[3], loop.args[4]) IN
       /\ connections' = r.conns
       /\ constructed' = r.built
       /\ localDb' = r.db
       /\ query_cache' = r.cache
       /\ backendCalls' = backendCalls + r.backend
       /\ ret' = [op |-> loop.op, args |-> loop.args, via |-> "api", served |-> r.served,
                  at |-> now, out |-> r.out]
    /\ loop' = Idle
    /\ UNCHANGED <<config, configFile, env, now, inflight, calls, lastPost, expIn, expOut>>

\* load_config is called again on the constructed connector
LoadConfig ==
    /\ calls < MaxCalls
    /\ calls' = calls + 1
    /\ config' = load_config(configFile).config
    /\ configFile' = load_config(configFile).file
    /\ ret' = [op |-> "load_config", via |-> "api", served |-> "none", at |-> now,
               out |-> Return(None)]
    /\ UNCHANGED <<connections, query_cache, env, now, localDb, inflight, constructed,
                   backendCalls, lastPost, expIn, expOut, loop>>

\* the file at config_path is deleted from outside the process
RemoveFile ==
    /\ configFile.exists
    /\ configFile' = [exists |-> FALSE, writes |-> configFile.writes]
    /\ UNCHANGED <<config, connections, query_cache, env, now, localDb, inflight, calls,
                   constructed, backendCalls, lastPost, ret, expIn, expOut, loop>>

\* time passes: the clock moves on to a later instant
Tick(t) ==
    /\ now < t /\ t <= MaxTime
    /\ now' = t
    /\ UNCHANGED <<config, configFile, connections, query_cache, env, localDb, inflight,
                   calls, constructed, backendCalls, lastPost, ret, expIn, expOut, loop>>

\* the process environment changes
SetEnv(name, value) ==
    /\ IF name \in DOMAIN env THEN env[name] # value ELSE TRUE
    /\ env' = Put(env, name, value)
    /\ UNCHANGED <<config, configFile, connections, query_cache, now, localDb, inflight,
                   calls, constructed, backendCalls, lastPost, ret, expIn, expOut, loop>>

\* arguments of the tool invocations
Col1 == [name |-> S("id"), type |-> S("INTEGER"), primary_key |-> B(TRUE)]
Col2 == [name |-> S("label"), type |-> S("TEXT"), nullable |-> B(TRUE)]
ToolCalls ==
    { <<"execute_query", [query |-> S(QSel)]>>,
      <<"execute_query", [database |-> S(DbRemote), query |-> S(QSel), fetch |-> B(FALSE)]>>,
      <<"execute_query", [query |-> S(CreateSql("t2", <<Col1, Col2>>))]>>,
      <<"execute_query", EmptyDict>>,
      <<"get_table_info", [table |-> S("t")]>>,
      <<"get_table_info", [database |-> S(DbRemote), table |-> S("t")]>>,
      <<"get_table_info", EmptyDict>>,
      <<"list_tables", EmptyDict>>,
      <<"list_tables", [database |-> S(DbRemote)]>>,
      <<"list_tables", [database |-> S(DbNope)]>>,
      <<"create_table", [table |-> S("t2"), columns |-> [t |-> "cols", cols |-> <<Col1, Col2>>]]>>,
      <<"create_table", [table |-> S("t2")]>>,
      <<"drop_table", EmptyDict>> }

ResourceUris ==
    { [scheme |-> "db", path_parts |-> <<"config">>],
      [scheme |-> "db", path_parts |-> <<"connections">>],
      [scheme |-> "db", path_parts |-> <<DbDefault, "schema">>],
      [scheme |-> "db", path_parts |-> <<DbRemote, "tables">>],
      [scheme |-> "db", path_parts |-> <<"bogus">>],
      [scheme |-> "file", path_parts |-> <<"config">>] }

Instants == {1, SecondsPerDay, SecondsPerDay + 1}
EnvValues == {"t1"}

\* what happens around the connector whoever calls it
Environment ==
    \/ \E task \in inflight : \E resp \in HttpResponses(TaskQuery(task)) :
          HttpResponse(task, resp)
    \/ \E t \in Instants : Tick(t)
    \/ \E value \in EnvValues : SetEnv("TOK", value)

\* the connector called through its methods
Next ==
    \/ \E rq \in Requests : ExecuteQuery(rq[1], rq[2], rq[3], rq[4])
    \/ \E database \in {DbRemote} : GetSchemaInfo(database)
    \/ \E database \in {DbDefault} : GetTableInfo(database, "t")
    \/ Environment

Spec == Init /\ [][Next]_vars

\* the connector called through the tool boundary
NextTools ==
    \/ \E tc \in ToolCalls : HandleCallTool(tc[1], tc[2])
    \/ Environment

SpecTools == Init /\ [][NextTools]_vars

\* configuration files whose profiles and remote registry hold credentials
CredDatabases ==
    { [Databases EXCEPT !.remote = @ @@ tok @@ pw] :
        tok \in {EmptyDict, [api_token |-> S("key-1")], [api_token |-> S("key-2")]},
        pw \in {EmptyDict, [password |-> S("pw-1")], [password |-> S("pw-2")]} }
CredRegistries ==
    { [Registry EXCEPT !.account_id = S(a), !.api_token = S(k)] :
        a \in {"acct", "acct-2"}, k \in {"${TOK}", "cf-token"} }
CredConfigs ==
    { [databases |-> dbs, cloudflare_d1 |-> reg,
       settings |-> [DefaultSettings EXCEPT !.cache_ttl = N(1)]] :
        dbs \in CredDatabases, reg \in CredRegistries }
    \cup { [databases |-> dbs, cloudflare_d1 |-> Registry] : dbs \in CredDatabases }

\* the connector read through the resource boundary
NextResources ==
    \/ \E uri \in ResourceUris : HandleReadResource(uri)
    \/ \E task \in inflight : \E resp \in HttpResponses(TaskQuery(task)) :
          HttpResponse(task, resp)

SpecResources ==
    Constructed({ File(cfg) : cfg \in CredConfigs }, {EmptyDict}) /\ [][NextResources]_vars

\* column specifications of create_table: a name and a type, with nullable and
\* primary_key absent, true or false and default absent, empty or "0"
ColumnSpecs ==
    { [name |-> S("c"), type |-> S("TEXT")] @@ nl @@ pk @@ df :
        nl \in {EmptyDict, [nullable |-> B(TRUE)], [nullable |-> B(FALSE)]},
        pk \in {EmptyDict, [primary_key |-> B(TRUE)], [primary_key |-> B(FALSE)]},
        df \in {EmptyDict, [default |-> S("")], [default |-> S("0")]} }

\* the column lists: every single column, the two orders of two columns, none
ColumnLists ==
    { << col >> : col \in ColumnSpecs } \cup { << Col1, Col2 >>, << Col2, Col1 >>, << >> }

\* the arguments of a create_table invocation
CreateArgs(database, table_name, columns) ==
    (IF database = DbDefault THEN EmptyDict ELSE [database |-> S(database)])
      @@ [table |-> S(table_name), columns |-> [t |-> "cols", cols |-> columns]]

\* create_table invoked through the tool boundary
NextDdl ==
    \/ \E database \in {DbDefault, DbRemote}, columns \in ColumnLists :
          HandleCallTool("create_table", CreateArgs(database, "t2", columns))
    \/ \E task \in inflight : \E resp \in HttpResponses(TaskQuery(task)) :
          HttpResponse(task, resp)

SpecDdl == Constructed({File(FullConfig)}, {EmptyDict}) /\ [][NextDdl]_vars

\* the remote database called through the connector's methods, the service
\* answering with every shape of response
NextRemote ==
    \/ \E fetch \in BOOLEAN : ExecuteQuery(DbRemote, QSel, ParamsX, fetch)
    \/ GetSchemaInfo(DbRemote)
    \/ GetTableInfo(DbRemote, "t")
    \/ \E task \in inflight : \E resp \in HttpResponsesAll(TaskQuery(task)) :
          HttpResponse(task, resp)

SpecRemote == Constructed({File(FullConfig)}, {EmptyDict}) /\ [][NextRemote]_vars

\* the connector with its configuration file: found or not at construction,
\* loaded again, deleted from outside
NextLoad ==
    \/ LoadConfig
    \/ RemoveFile
    \/ \E rq \in { <<DbDefault, QSel, None, TRUE>>, <<DbRemote, QSel, ParamsX, TRUE>> } :
          ExecuteQuery(rq[1], rq[2], rq[3], rq[4])
    \/ GetSchemaInfo(DbDefault)
    \/ GetTableInfo(DbRemote, "t")
    \/ \E task \in inflight : \E resp \in HttpResponses(TaskQuery(task)) :
          HttpResponse(task, resp)
    \/ \E value \in EnvValues : SetEnv("TOK", value)

SpecLoad == Constructed({Absent, File(FullConfig)}, {EmptyDict}) /\ [][NextLoad]_vars

\* a configuration file with three more profiles: one of a type the connector
\* does not support, a sqlite one without path, a cloudflare_d1 one without
\* database_id
FaultyNames == {"pg", "nopath", "noid"}
FaultyConfig ==
    [FullConfig EXCEPT !.databases =
        @ @@ [pg |-> [type |-> S("postgres"), host |-> S("localhost")],
              nopath |-> [type |-> S("sqlite")],
              noid |-> [type |-> S("cloudflare_d1")]]]

\* calls on names whose Handle cannot be obtained, among calls on the two
\* profiles that work
NextFaulty ==
    \/ \E database \in FaultyNames \cup {DbNope}, fetch \in BOOLEAN :
          ExecuteQuery(database, QSel, None, fetch)
    \/ \E database \in FaultyNames \cup {DbNope} : GetSchemaInfo(database)
    \/ \E database \in FaultyNames \cup {DbNope} : GetTableInfo(database, "t")
    \/ \E rq \in { <<DbDefault, QSel, None, TRUE>>, <<DbDefault, QIns, None, FALSE>>,
                    <<DbRemote, QSel, ParamsX, TRUE>>, <<DbColon, "x", None, TRUE>> } :
          ExecuteQuery(rq[1], rq[2], rq[3], rq[4])
    \/ \E task \in inflight : \E resp \in HttpResponses(TaskQuery(task)) :
          HttpResponse(task, resp)

SpecFaulty == Constructed({File(FaultyConfig)}, {EmptyDict}) /\ [][NextFaulty]_vars

\* fetches and mutations on both profiles, with caching enabled or disabled,
\* the clock moving within and to the end of cache_ttl
CacheConfigs == { FullConfig, [FullConfig EXCEPT !.settings.cache_enabled = B(FALSE)] }
CacheRequests ==
    { <<DbDefault, QSel, None, TRUE>>, <<DbDefault, QIns, None, FALSE>>,
      <<DbRemote, QSel, ParamsX, TRUE>>, <<DbRemote, QIns, None, FALSE>> }

NextCache ==
    \/ \E rq \in CacheRequests : ExecuteQuery(rq[1], rq[2], rq[3], rq[4])
    \/ \E task \in inflight : \E resp \in HttpResponses(TaskQuery(task)) :
          HttpResponse(task, resp)
    \/ \E t \in {1, DefaultSettings.cache_ttl.n} : Tick(t)

SpecCache ==
    Constructed({ File(cfg) : cfg \in CacheConfigs }, {EmptyDict}) /\ [][NextCache]_vars

\* configuration files whose two profiles are read_only or not, and the
\* mutating calls of the connector and of the tools on them
ReadOnlyConfigs ==
    { [FullConfig EXCEPT !.databases.default.read_only = B(ro),
                         !.databases.remote.read_only = B(ro)] : ro \in BOOLEAN }
MutatingTools ==
    { <<"create_table", [table |-> S("t2"), columns |-> [t |-> "cols", cols |-> <<Col1, Col2>>]]>>,
      <<"execute_query", [query |-> S(QIns), fetch |-> B(FALSE)]>>,
      <<"execute_query", [database |-> S(DbRemote), query |-> S(QIns), fetch |-> B(FALSE)]>> }

NextReadOnly ==
    \/ \E tc \in MutatingTools : HandleCallTool(tc[1], tc[2])
    \/ \E database \in {DbDefault, DbRemote} : ExecuteQuery(database, QIns, None, FALSE)
    \/ ExecuteQuery(DbDefault, QSel, None, TRUE)
    \/ \E task \in inflight : \E resp \in HttpResponses(TaskQuery(task)) :
          HttpResponse(task, resp)

SpecReadOnly ==
    Constructed({ File(cfg) : cfg \in ReadOnlyConfigs }, {EmptyDict}) /\ [][NextReadOnly]_vars

\* remote calls posted at instant 0 under two values of query_timeout, the
\* clock moving to each timeout and one second past it while the service
\* answers or stays silent
TimeoutConfigs ==
    { [FullConfig EXCEPT !.settings.query_timeout = N(q)] :
        q \in {1, DefaultSettings.query_timeout.n} }
TimeoutInstants == UNION { {cfg.settings.query_timeout.n, cfg.settings.query_timeout.n + 1} :
                            cfg \in TimeoutConfigs }

NextTimeout ==
    \/ /\ now = 0
       /\ \E fetch \in BOOLEAN : ExecuteQuery(DbRemote, QSel, ParamsX, fetch)
    \/ now = 0 /\ GetSchemaInfo(DbRemote)
    \/ \E task \in inflight : \E resp \in HttpResponses(TaskQuery(task)) :
          HttpResponse(task, resp)
    \/ \E t \in TimeoutInstants : Tick(t)

SpecTimeout ==
    Constructed({ File(cfg) : cfg \in TimeoutConfigs }, {EmptyDict}) /\ [][NextTimeout]_vars

\* local queries, each holding the event-loop thread from its sqlite3 call to
\* its return, among remote calls awaiting their answers
NextThread ==
    \/ \E rq \in { <<DbDefault, QSel, None, TRUE>>, <<DbDefault, QIns, None, FALSE>>,
                    <<DbDefault, QBad, None, TRUE>> } :
          LocalBegin(rq[1], rq[2], rq[3], rq[4])
    \/ LocalEnd
    \/ \E fetch \in BOOLEAN : ExecuteQuery(DbRemote, QSel, ParamsX, fetch)
    \/ \E task \in inflight : \E resp \in HttpResponses(TaskQuery(task)) :
          HttpResponse(task, resp)

SpecThread == Constructed({File(FullConfig)}, {EmptyDict}) /\ [][NextThread]_vars

\* the strings of at most n characters over the characters of a placeholder
Alphabet == {"$", "{", "}", "A"}
RECURSIVE Strings(_)
Strings(n) ==
    IF n = 0 THEN {""}
    ELSE LET shorter == Strings(n - 1)
         IN shorter \cup { s \o c : s \in shorter, c \in Alphabet }

\* values _expand_env_vars is applied to, and the environments it reads
ExpandInputs == { S(s) : s \in Strings(MaxLen) } \cup { B(FALSE), N(30), None }
ExpandEnvs == UNION { [names -> {"bar", ""}] : names \in SUBSET {"A"} }

\* _expand_env_vars(value) is called
ExpandEnvVars(value) ==
    /\ expIn' = value
    /\ expOut' = _expand_env_vars(value)
    /\ UNCHANGED <<config, configFile, connections, query_cache, env, now, localDb,
                   inflight, calls, constructed, backendCalls, lastPost, ret, loop>>

NextExpand == \E value \in ExpandInputs : ExpandEnvVars(value)

SpecExpand ==
    Constructed({File([databases |-> Databases, cloudflare_d1 |-> Registry,
                       settings |-> DefaultSettings])}, ExpandEnvs)
    /\ [][NextExpand]_vars

-----------------------------------------------------------------------------
(* Properties of execute_query and get_connection *)

\* a call returns in this step: one that ran without suspending, or a
\* suspended one resumed by its answer
Returned ==
    \/ calls' # calls /\ inflight' = inflight
    \/ calls' = calls /\ inflight' # inflight

\* a call is suspended at its POST in this step
Suspended == calls' # calls /\ inflight' # inflight

\* the call op(args) is made in this step
Made(op, args) ==
    /\ calls' # calls
    /\ IF inflight' = inflight THEN ret'.op = op /\ ret'.args = args
       ELSE \E task \in inflight' \ inflight : task.op = op /\ task.args = args

\* ret is a result (not an exception) of execute_query with this success flag
QueryReturned(r, success) ==
    /\ r.op = "execute_query"
    /\ ~r.out.raised
    /\ r.out.value.success = success

\* C1: with caching enabled, when a fetch=true execute_query was answered by
\* the backend with success and the same call is made again less than
\* cache_ttl seconds later, the second call makes no backend call, constructs
\* no Handle, leaves the cache as it is and returns the result of the first.
C1_CacheIdentity ==
    [][ ( /\ ret.via = "api" /\ QueryReturned(ret, TRUE)
          /\ ret.served = "backend" /\ ret.args[4]
          /\ CacheEnabled
          /\ Made("execute_query", ret.args)
          /\ now - ret.at < CacheTtl )
        => ( /\ Returned
             /\ backendCalls' = backendCalls
             /\ lastPost' = lastPost
             /\ connections' = connections /\ constructed' = constructed
             /\ query_cache' = query_cache
             /\ ret'.served = "cache"
             /\ ret'.out = ret.out ) ]_vars

\* two calls were made to the remote database, the backend was invoked once and
\* the second call was answered from the cache
C1_Witness ==
    /\ calls = 2 /\ backendCalls = 1
    /\ QueryReturned(ret, TRUE) /\ ret.served = "cache"
    /\ ret.args = <<DbRemote, QSel, ParamsX, TRUE>>

\* C2: execute_query returns a cached result only if the entry is younger than
\* cache_ttl: now - inserted_at < cache_ttl.
C2_TtlExpiry ==
    [][ (Returned /\ ret'.served = "cache")
        => LET key == _get_cache_key(ret'.args[1], ret'.args[2], ret'.args[3])
           IN now - query_cache[key].timestamp < CacheTtl ]_vars

\* C3: no step of an execute_query call with fetch=false changes the cache.
C3_MutationNotCached ==
    [][ ( \/ Returned /\ ret'.op = "execute_query" /\ ~ret'.args[4]
          \/ Suspended /\ \E task \in inflight' \ inflight :
                             task.op = "execute_query" /\ ~task.args[4] )
        => query_cache' = query_cache ]_vars

\* a fetch=false call succeeded with caching enabled
C3_Witness ==
    /\ QueryReturned(ret, TRUE) /\ ~ret.args[4]
    /\ ret.args[2] = QIns
    /\ CacheEnabled

\* C4: at most one Handle is ever constructed for a name; a stored Handle is
\* never replaced or removed, and get_connection returns it without
\* constructing another.
C4_OneHandle ==
    [][ \A n \in DbNames :
          /\ constructed'[n] <= 1
          /\ n \in DOMAIN connections =>
                /\ n \in DOMAIN connections' /\ connections'[n] = connections[n]
                /\ get_connection(n).out = Return(connections[n])
                /\ get_connection(n).built = constructed ]_vars

\* two calls to the remote database are suspended at the same time and hold
\* the one Handle constructed for it
C4_Witness ==
    /\ constructed[DbRemote] = 1
    /\ \E t1, t2 \in inflight :
          /\ t1.id # t2.id
          /\ t1.args[1] = DbRemote /\ t2.args[1] = DbRemote
          /\ t1.conn = connections[DbRemote].id /\ t2.conn = connections[DbRemote].id

\* C5: execute_query never raises; every fault comes back as a result with
\* success=false and an error message.
C5_NeverRaises ==
    (ret.op = "execute_query" /\ ret.via = "api") => ~ret.out.raised

\* C6: for a name that is not configured (the configuration being complete),
\* execute_query returns success=false with the 'not configured' message and
\* stores no Handle for the name.
C6_UnknownDatabase ==
    ( /\ ret.op = "execute_query" /\ ret.via = "api"
      /\ "settings" \in DOMAIN config
      /\ ret.args[1] \notin DOMAIN config.databases )
    => ( /\ QueryReturned(ret, FALSE)
         /\ ret.out.value.error = "Database '" \o ret.args[1] \o "' not configured"
         /\ ret.args[1] \notin DOMAIN connections )

\* C8: every POST authenticates with the value the placeholder of the remote
\* registry resolves to at the time of the POST.
C8_CredentialAtUse ==
    [][ Suspended
        => lastPost'.authorization
             = "Bearer " \o _expand_env_vars(config.cloudflare_d1.api_token).s ]_vars

-----------------------------------------------------------------------------
(* Properties of handle_call_tool *)

ToolVias == { "tool:" \o tc[1] : tc \in ToolCalls }

\* C7: whatever the tool name and the arguments, handle_call_tool returns (and
\* does not raise) one text payload, which holds the result of the operation
\* or {success: false, error: <message>}.
C7_ToolNeverRaises ==
    ret.via \in ToolVias
    => /\ ~ret.out.raised
       /\ Len(ret.out.value) = 1
       /\ ret.out.value[1].type = "text"
       /\ LET body == ret.out.value[1].text.json
          IN /\ "success" \in DOMAIN body
             /\ ~body.success => "error" \in DOMAIN body

\* execute_query was invoked without its required argument and the KeyError
\* came back as an error payload
C7_Witness ==
    /\ ret.via = "tool:execute_query"
    /\ ~ret.out.raised
    /\ ret.out.value = ToolError("'query'")

-----------------------------------------------------------------------------
(* Properties of _expand_env_vars and of the db://config resource *)

\* C9: for a value of the form ${NAME} the result is the value of environment
\* variable NAME if it is set and the value itself if it is not; every other
\* value, a non-string included, is returned unchanged.
C9_ExpandEnvVars ==
    expIn # NoInput
    => LET names == IF expIn.t = "str"
                    THEN { n \in Strings(MaxLen) : expIn.s = "${" \o n \o "}" }
                    ELSE {}
       IN IF names = {} THEN expOut = expIn
          ELSE \A n \in names :
                  IF n \in DOMAIN env THEN expOut = S(env[n]) ELSE expOut = expIn

\* ${A} was resolved with A set to bar
C9_Witness == expIn = S("${A}") /\ "A" \in DOMAIN env /\ expOut = S("bar")

\* c1 and c2 differ at most in the values of their credentials
SameButCredentials(c1, c2) ==
    /\ DOMAIN c1 = DOMAIN c2
    /\ "settings" \in DOMAIN c1 => c1.settings = c2.settings
    /\ c1.cloudflare_d1.databases = c2.cloudflare_d1.databases
    /\ DOMAIN c1.databases = DOMAIN c2.databases
    /\ \A name \in DOMAIN c1.databases :
          /\ DOMAIN c1.databases[name] = DOMAIN c2.databases[name]
          /\ \A k \in DOMAIN c1.databases[name] \ {"api_token", "password"} :
                c1.databases[name][k] = c2.databases[name][k]

\* the credential values of a configuration
Credentials(cfg) ==
    { cfg.cloudflare_d1.account_id, cfg.cloudflare_d1.api_token }
    \cup UNION { { cfg.databases[name][k] :
                     k \in DOMAIN cfg.databases[name] \cap {"api_token", "password"} } :
                 name \in DOMAIN cfg.databases }

\* C10: the text of db://config is the same for every configuration that
\* differs from the loaded one only in credential values, and no profile in it
\* holds a credential value.
C10_ConfigSanitized ==
    (ret.via = "resource:config" /\ ~ret.out.raised)
    => /\ \A c2 \in CredConfigs :
            SameButCredentials(config, c2) => ret.out.value = Dumps(Sanitize(c2))
       /\ LET dbs == ret.out.value.json.databases
          IN \A name \in DOMAIN dbs : \A k \in DOMAIN dbs[name] :
                dbs[name][k] \notin Credentials(config)

\* db://config was read from a configuration whose remote profile holds an
\* api_token and a password
C10_Witness ==
    /\ ret.via = "resource:config" /\ ~ret.out.raised
    /\ {"api_token", "password"} \subseteq DOMAIN config.databases[DbRemote]

-----------------------------------------------------------------------------
(* Properties of the create_table and list_tables tools *)

\* a column as the statement is said to render it
RenderedColumn(col) ==
    col.name.s \o " " \o col.type.s
      \o (IF "nullable" \in DOMAIN col /\ col.nullable = B(FALSE) THEN " NOT NULL" ELSE "")
      \o (IF "primary_key" \in DOMAIN col /\ col.primary_key = B(TRUE)
          THEN " PRIMARY KEY" ELSE "")
      \o (IF "default" \in DOMAIN col THEN " DEFAULT " \o col.default.s ELSE "")

RECURSIVE RenderedColumns(_)
RenderedColumns(columns) ==
    IF Len(columns) = 0 THEN ""
    ELSE RenderedColumn(columns[1])
           \o (IF Len(columns) = 1 THEN "" ELSE ", " \o RenderedColumns(Tail(columns)))

\* C11: create_table submits, through execute_query with fetch=false, the
\* statement CREATE TABLE <table> (<c1>, <c2>, ...) with the columns in the
\* order given, each as <name> <type>, then NOT NULL iff nullable is false,
\* PRIMARY KEY iff primary_key is true, DEFAULT <value> iff a default is given.
C11_CreateTableSql ==
    [][ \A database \in {DbDefault, DbRemote}, columns \in ColumnLists :
          HandleCallTool("create_table", CreateArgs(database, "t2", columns))
          => Made("execute_query",
                  << database, "CREATE TABLE t2 (" \o RenderedColumns(columns) \o ")",
                     None, FALSE >>) ]_vars

-----------------------------------------------------------------------------
(* Properties of the remote backend *)

\* C12: the remote backend's execute maps every HTTP outcome to a result and
\* never raises: status 200 with application success gives success=true with
\* the first result's rows, meta and duration; status 200 with application
\* failure gives success=false with the first reported error, whatever the
\* errors list (an empty one leaves the stand-in 'Unknown error'); another
\* status gives 'HTTP <status>: <body>'; a transport exception gives a
\* 'Connection error: ...' message.  A status 200 whose body is not JSON, or
\* holds the success flag alone, is only required not to raise.
C12_RemoteOutcome ==
    (ret.via = "api" /\ "resp" \in DOMAIN ret)
    => LET resp == ret.resp
           result == ret.out.value
       IN /\ ~ret.out.raised
          /\ IF "exception" \in DOMAIN resp
             THEN ~result.success /\ result.error = "Connection error: " \o resp.exception
             ELSE IF resp.status # 200
             THEN ~result.success
                  /\ result.error = "HTTP " \o ToString(resp.status) \o ": " \o resp.text
             ELSE IF "body" \notin DOMAIN resp \/ DOMAIN resp.body = {"success"}
             THEN TRUE
             ELSE IF resp.body.success
             THEN LET first == IF Len(resp.body.result) > 0
                               THEN resp.body.result[1] ELSE EmptyDict
                  IN /\ result.success
                     /\ result.data = Get(first, "results", << >>)
                     /\ result.meta = Get(first, "meta", EmptyDict)
                     /\ result.duration = Get(first, "duration", 0)
             ELSE /\ ~result.success
                  /\ result.error = IF Len(resp.body.errors) > 0
                                    THEN resp.body.errors[1] ELSE "Unknown error"

\* the payload a tool call has returned
Payload(r) == r.out.value[1].text.json

\* C13: list_tables returns the names of the tables of the database, in name
\* order, and no index or view; when the schema query fails (the name is not
\* configured, or the remote service does not answer with success) it returns
\* the failure payload and no table list.
C13_ListTables ==
    [][ (Returned /\ ret'.via = "tool:list_tables")
        => LET body == Payload(ret')
               database == ret'.args[1]
           IN IF database = DbDefault
              THEN body = [success |-> TRUE, tables |-> localDb'[DbDefault].tables]
              ELSE IF database = DbRemote /\ d1_result(ret'.resp).success
              THEN body = [success |-> TRUE, tables |-> << "t" >>]
              ELSE /\ ~body.success
                   /\ "error" \in DOMAIN body
                   /\ "tables" \notin DOMAIN body ]_vars

\* list_tables was invoked after create_table had added t2 to the default
\* database, whose catalog also holds an index and a view
C13_Witness ==
    /\ ret.via = "tool:list_tables" /\ ret.args[1] = DbDefault
    /\ localDb[DbDefault].tables = << "t", "t2" >>
    /\ Payload(ret).tables = << "t", "t2" >>

\* C16: no step of a list_tables, get_table_info or create_table invocation
\* adds or replaces a cache entry, and none is answered from the cache.
C16_SchemaOpsBypassCache ==
    [][ \A via \in {"tool:list_tables", "tool:get_table_info", "tool:create_table"} :
          /\ (Returned /\ ret'.via = via)
                => (query_cache' = query_cache /\ ret'.served # "cache")
          /\ (Suspended /\ \E task \in inflight' \ inflight : task.via = via)
                => query_cache' = query_cache ]_vars

-----------------------------------------------------------------------------
(* Properties of the cache and of the path of a query *)

\* C14: every entry of the query cache holds a result with success=true.
C14_OnlySuccessCached ==
    \A key \in DOMAIN query_cache : query_cache[key].result.success

\* C15: an execute_query call with fetch=false, made when the connection can
\* be obtained, hands its query to the backend and is not answered from the
\* cache, whatever the cache holds.
C15_MutationBypassesCache ==
    [][ \A rq \in Requests :
          ( /\ ~rq[4] /\ Made("execute_query", rq)
            /\ "settings" \in DOMAIN config
            /\ ~get_connection(rq[1]).out.raised )
          => /\ backendCalls' = backendCalls + 1
             /\ Returned => ret'.served # "cache" ]_vars

\* C17: every step that hands a query to a Handle is a step of an
\* execute_query call.
C17_ChokePoint ==
    [][ backendCalls' # backendCalls
        => \E rq \in Requests : Made("execute_query", rq) ]_vars

\* C20: a successful result that execute_query has got from a backend, of
\* either kind, carries rows and no affected_rows when fetch=true, and
\* affected_rows with last_insert_id and no rows when fetch=false.
C20_RowsOrAffected ==
    (ret.via = "api" /\ QueryReturned(ret, TRUE) /\ ret.served = "backend")
    => LET result == ret.out.value
       IN IF ret.args[4]
          THEN "data" \in DOMAIN result /\ "affected_rows" \notin DOMAIN result
          ELSE /\ {"affected_rows", "last_insert_id"} \subseteq DOMAIN result
               /\ "data" \notin DOMAIN result

-----------------------------------------------------------------------------
(* Properties of the configuration file *)

\* the string values of a configuration: of its profiles and remote registry
ConfigStrings(cfg) ==
    { cfg.cloudflare_d1.account_id, cfg.cloudflare_d1.api_token }
    \cup UNION { { cfg.databases[name][k] : k \in DOMAIN cfg.databases[name] } :
                 name \in DOMAIN cfg.databases }

\* a registry as the first run writes it: one local database 'default', an
\* empty remote registry with unresolved placeholders, the five settings
FirstRunRegistry(cfg) ==
    /\ DOMAIN cfg.databases = {"default"}
    /\ cfg.databases.default.type = S("sqlite")
    /\ cfg.cloudflare_d1.databases = EmptyDict
    /\ \A k \in {"account_id", "api_token"} :
          StartsWith(cfg.cloudflare_d1[k].s, "${") /\ EndsWith(cfg.cloudflare_d1[k].s, "}")
    /\ DOMAIN cfg.settings =
          {"query_timeout", "max_connections", "cache_enabled", "cache_ttl", "log_queries"}

\* C18: the file is written only by a load_config that finds no file, which
\* writes and adopts the first-run registry; a load_config that finds the file
\* leaves it as it is; no other operation changes the file or the in-memory
\* configuration, and neither ever holds a value resolved from the environment.
C18_ConfigFileFrame ==
    [][ LET loads == calls' # calls /\ ret'.op = "load_config" IN
        /\ configFile'.writes # configFile.writes
              => /\ loads /\ ~configFile.exists
                 /\ configFile'.exists /\ configFile'.writes = configFile.writes + 1
                 /\ FirstRunRegistry(Loads(configFile'.text))
                 /\ config' = Loads(configFile'.text)
        /\ (loads /\ configFile.exists) => configFile' = configFile
        /\ ~loads => /\ config' = config
                     /\ configFile'.exists => configFile' = configFile
        /\ \A name \in DOMAIN env' :
              /\ S(env'[name]) \notin ConfigStrings(config')
              /\ configFile'.exists
                    => S(env'[name]) \notin ConfigStrings(Loads(configFile'.text)) ]_vars

\* the remote Handle was constructed with the token resolved from the
\* environment, the file was then deleted, and load_config wrote it again
C18_Witness ==
    /\ ret.op = "load_config"
    /\ configFile.exists /\ configFile.writes = 1
    /\ DbRemote \in DOMAIN connections
    /\ "TOK" \in DOMAIN env /\ connections[DbRemote].api_token = S(env["TOK"])

-----------------------------------------------------------------------------
(* Properties of a failed connection acquisition *)

\* C19: when a call reaches get_connection and get_connection fails (unknown
\* name, unsupported type, missing connection parameter), the call returns
\* success=false with the message of the failure and leaves the Handle map,
\* the cache, the databases and the calls in flight as they were, so that what
\* later calls do is what they would have done without it.
C19_FailedAcquisition ==
    [][ \A database \in FaultyNames \cup DbNames :
          ( /\ calls' # calls
            /\ inflight' = inflight
            /\ ret'.op \in {"execute_query", "get_schema_info", "get_table_info"}
            /\ ret'.args[1] = database
            /\ ret'.served # "cache"
            /\ get_connection(database).out.raised )
          => /\ connections' = connections /\ constructed' = constructed
             /\ query_cache' = query_cache /\ localDb' = localDb
             /\ backendCalls' = backendCalls /\ lastPost' = lastPost
             /\ config' = config
             /\ ~ret'.out.raised
             /\ ~ret'.out.value.success
             /\ ret'.out.value.error = get_connection(database).out.msg ]_vars

\* a call on the profile of unsupported type failed after a call on the
\* default database had stored a Handle and a cache entry
C19_Witness ==
    /\ calls = 2 /\ ret.op = "execute_query" /\ ret.args[1] = "pg"
    /\ ~ret.out.value.success
    /\ ret.out.value.error = "Unsupported database type: postgres"
    /\ DOMAIN connections = {DbDefault}
    /\ DOMAIN query_cache # {}

-----------------------------------------------------------------------------
(* Properties of mutations, transactions and cache keys *)

\* C21: when an execute_query call that submits an INSERT with fetch=false to
\* the local backend returns success=true, the mutation is committed (the
\* Handle holds no open transaction) and the result carries affected_rows and
\* last_insert_id.
C21_MutationCommitted ==
    [][ ( /\ Returned /\ ret'.via = "api" /\ QueryReturned(ret', TRUE)
          /\ ret'.args[1] = DbDefault /\ ret'.args[2] = QIns /\ ~ret'.args[4] )
        => /\ ~localDb'[DbDefault].in_txn
           /\ {"affected_rows", "last_insert_id"} \subseteq DOMAIN ret'.out.value ]_vars

\* C26: a call is answered from the cache only with an entry stored for its
\* own (database, query, params); entries are stored by calls that obtained a
\* Handle, so a call answered from the cache names a configured database, for
\* which a Handle is stored.
C26_KeyIdentity ==
    (ret.op = "execute_query" /\ ret.served = "cache")
    => /\ ret.args[1] \in DOMAIN config.databases
       /\ ret.args[1] \in DOMAIN connections

\* C28: when an execute_query call on the local backend returns, the Handle
\* holds no open uncommitted transaction.
C28_NoOpenTransaction ==
    [][ (Returned /\ ret'.op = "execute_query" /\ ret'.args[1] = DbDefault)
        => ~localDb'[DbDefault].in_txn ]_vars

-----------------------------------------------------------------------------
(* Properties of the cache under mutations and with caching disabled *)

\* C23: with settings.cache_enabled false, no step changes the cache, no
\* execute_query call is answered from it, and every fetch=true call whose
\* connection can be obtained hands its query to the backend.
C23_CacheDisabled ==
    [][ config.settings.cache_enabled = B(FALSE)
        => /\ query_cache' = query_cache
           /\ (Returned /\ ret'.op = "execute_query") => ret'.served # "cache"
           /\ \A rq \in CacheRequests :
                 (rq[4] /\ Made("execute_query", rq) /\ ~get_connection(rq[1]).out.raised)
                 => backendCalls' = backendCalls + 1 ]_vars

\* with caching disabled, a fetch was answered by the backend a second time
C23_Witness ==
    /\ config.settings.cache_enabled = B(FALSE)
    /\ calls = 2 /\ backendCalls = 2
    /\ QueryReturned(ret, TRUE) /\ ret.args = <<DbDefault, QSel, None, TRUE>>
    /\ query_cache = EmptyDict

\* C27: a successful fetch=false call leaves every cache entry as it was, and
\* a fetch=true call whose entry is fresh would, made right after it, be
\* answered from the cache with the result stored before the mutation and
\* without a backend call.
C27_NoInvalidation ==
    [][ ( /\ Returned /\ QueryReturned(ret', TRUE)
          /\ ~ret'.args[4] /\ ret'.served = "backend" )
        => /\ \A key \in DOMAIN query_cache :
                 key \in DOMAIN query_cache' /\ query_cache'[key] = query_cache[key]
           /\ \A rq \in CacheRequests :
                 LET key == _get_cache_key(rq[1], rq[2], rq[3]) IN
                 ( /\ rq[4] /\ CacheEnabled
                   /\ key \in DOMAIN query_cache
                   /\ CacheFresh(query_cache[key]) )
                 => LET again == execute_query(rq[1], rq[2], rq[3], TRUE)'
                    IN /\ again.served = "cache"
                       /\ again.backend = 0
                       /\ again.out = Return(query_cache[key].result) ]_vars

\* an INSERT was committed on the default database while the cache holds the
\* fresh result of the SELECT made before it, which has no row
C27_Witness ==
    /\ QueryReturned(ret, TRUE) /\ ret.args = <<DbDefault, QIns, None, FALSE>>
    /\ localDb[DbDefault].rows = 1
    /\ LET key == _get_cache_key(DbDefault, QSel, None)
       IN /\ key \in DOMAIN query_cache
          /\ query_cache[key].result.count = 0
          /\ CacheFresh(query_cache[key])

-----------------------------------------------------------------------------
(* Properties of the remote POST *)

\* C22: a suspended remote call that receives its answer, whatever the answer,
\* returns in that step without another POST; an execute_query call on the
\* remote database issues one POST when it is not answered from the cache and
\* none when it is.
C22_OnePostPerExecute ==
    [][ /\ (Returned /\ "resp" \in DOMAIN ret')
           => /\ backendCalls' = backendCalls
              /\ lastPost' = lastPost
              /\ Cardinality(inflight') = Cardinality(inflight) - 1
        /\ \A fetch \in BOOLEAN :
             Made("execute_query", <<DbRemote, QSel, ParamsX, fetch>>)
             => IF inflight' # inflight
                THEN /\ backendCalls' = backendCalls + 1
                     /\ Cardinality(inflight') = Cardinality(inflight) + 1
                ELSE /\ backendCalls' = backendCalls
                     /\ ret'.served = "cache" ]_vars

\* a remote execute_query has returned the failure of a transport exception
\* after its single POST
C22_Witness ==
    /\ ret.op = "execute_query" /\ "resp" \in DOMAIN ret
    /\ "exception" \in DOMAIN ret.resp
    /\ ~ret.out.value.success
    /\ calls = 1 /\ backendCalls = 1 /\ inflight = {}

\* C29: when two execute_query calls with fetch=true and the same database,
\* query and params on the remote database are both suspended at their POST,
\* the second has not issued a POST of its own: there are fewer POSTs than
\* calls.
C29_OverlapCoalesced ==
    \A t1, t2 \in inflight :
        ( /\ t1.id # t2.id
          /\ t1.op = "execute_query" /\ t2.op = "execute_query"
          /\ t1.args = t2.args /\ t1.args[4] )
        => backendCalls < calls

-----------------------------------------------------------------------------
(* Properties of read_only profiles and of the time a remote call takes *)

\* C30: when the profile of the default database has read_only true, an
\* execute_query call with fetch=false on it (made directly or by the
\* create_table tool) returns success=false and leaves the database as it was.
C30_ReadOnlyRejects ==
    [][ ( /\ config.databases[DbDefault].read_only = B(TRUE)
          /\ Returned /\ ret'.op = "execute_query"
          /\ ret'.args[1] = DbDefault /\ ~ret'.args[4] )
        => /\ localDb' = localDb
           /\ ~ret'.out.raised
           /\ LET result == IF ret'.via = "api" THEN ret'.out.value ELSE Payload(ret')
              IN ~result.success ]_vars

\* C24: a remote call posted at instant 0 is no longer awaiting its answer
\* once more than settings.query_timeout seconds have passed: it has returned.
C24_TimeoutBounds ==
    inflight # {} => now <= config.settings.query_timeout.n

\* C25: while a local query is executing, every remote call awaiting its
\* answer can receive it and run on to its return.
C25_LocalIsolated ==
    loop.op # "none"
    => \A task \in inflight :
          \E resp \in HttpResponses(TaskQuery(task)) : ENABLED HttpResponse(task, resp)

====
